---- MODULE Spec2Model ----
(***************************************************************************)
(* Model of AddonModAssignBaseSubmissionHandler, the default handler for   *)
(* assign submission plugins                                               *)
(* (src/addon/mod/assign/classes/base-submission-handler.ts).              *)
(*                                                                         *)
(* The handler holds two constant fields and a handle to the translation   *)
(* service.  Every hook is modelled as an operator that takes the handler  *)
(* (this), the objects the caller passes by reference (mem) and the hook's *)
(* arguments, and yields a completion: how the call ended, the value       *)
(* returned, the handler and the objects after the call, and the           *)
(* collaborator invocations the call made.                                 *)
(***************************************************************************)
EXTENDS Integers, Sequences, FiniteSets, TLC

VARIABLES
    this,          \* the handler's own fields
    translations,  \* the translation service's table: key -> string
    mem,           \* caller-owned objects and local storage
    result,        \* observed outcome of the most recent hook call, if any
    earlier        \* an outcome observed earlier, kept for comparison

vars == <<this, translations, mem, result, earlier>>

----------------------------------------------------------------------------
(* Bounds *)

MaxTypes == 2      \* number of plugin types in use
MaxFields == 1     \* number of distinct field names the data objects hold

----------------------------------------------------------------------------
(* JavaScript values, tagged by type *)

Undefined == [t |-> "undefined"]
Null == [t |-> "null"]
Str(s) == [t |-> "string", v |-> s]
Num(n) == [t |-> "number", v |-> n]
Bool(b) == [t |-> "boolean", v |-> b]
Arr(s) == [t |-> "array", v |-> s]
PromiseOf(st, val) == [t |-> "promise", state |-> st, v |-> val]

\* ToBoolean, as applied by `if (plugin.name)`.
Truthy(x) ==
    CASE x.t = "undefined" -> FALSE
      [] x.t = "null" -> FALSE
      [] x.t = "string" -> x.v # ""
      [] x.t = "number" -> x.v # 0
      [] x.t = "boolean" -> x.v
      [] OTHER -> TRUE

\* `a != b` on two strings.
NotEqual(a, b) == a # b

----------------------------------------------------------------------------
(* Completions of a hook call *)

Return(val, self, m, calls) ==
    [status |-> "return", ret |-> val, this |-> self, mem |-> m, calls |-> calls]

Throw(err, self, m, calls) ==
    [status |-> "throw", ret |-> Str(err), this |-> self, mem |-> m, calls |-> calls]

----------------------------------------------------------------------------
(* The translation collaborator *)

\* TranslateService.instant: the registered translation, or the key itself.
instant(table, key) ==
    IF key.v \in DOMAIN table THEN Str(table[key.v]) ELSE key

InstantCall(key, val) == [op |-> "translate.instant", key |-> key, ret |-> val]

----------------------------------------------------------------------------
(* The handler *)

AddonModAssignBaseSubmissionHandler ==
    [name |-> "AddonModAssignBaseSubmissionHandler",
     type |-> "base",
     translate |-> "TranslateService"]


canEditOffline(self, m, assign, submission, plugin) ==
    Return(Bool(FALSE), self, m, <<>>)

isEmpty(self, m, assign, plugin) ==
    Return(Bool(TRUE), self, m, <<>>)

\* inputData is m.inputData
clearTmpData(self, m, assign, submission, plugin) ==
    Return(Undefined, self, m, <<>>)

\* pluginData is m.pluginData
copySubmissionData(self, m, assign, plugin, userId, siteId) ==
    Return(Undefined, self, m, <<>>)

\* offlineData is m.offlineData; stored data is m.storage
deleteOfflineData(self, m, assign, submission, plugin, siteId) ==
    Return(Undefined, self, m, <<>>)

\* As getComponent, but refusing when asked for the edit component.
getComponent_refusing(self, m, injector, plugin, edit) ==
    IF edit = Bool(TRUE)
    THEN Throw("Error", self, m, <<>>)
    ELSE Return(Undefined, self, m, <<>>)


getComponent(self, m, injector, plugin, edit) ==
    Return(Undefined, self, m, <<>>)

\* As getPluginFiles, but listing a file for every named plugin.
getPluginFiles_named(self, m, assign, submission, plugin, siteId) ==
    IF plugin # Null /\ Truthy(plugin.name)
    THEN Return(Arr(<<plugin.name>>), self, m, <<>>)
    ELSE Return(Arr(<<>>), self, m, <<>>)


getPluginFiles(self, m, assign, submission, plugin, siteId) ==
    Return(Arr(<<>>), self, m, <<>>)

\* As getPluginName, but preferring the descriptor's name to the translation.
getPluginName_nameFirst(self, m, table, plugin) ==
    IF plugin = Null \/ plugin = Undefined
    THEN Throw("TypeError", self, m, <<>>)
    ELSE LET translationId == Str("addon.mod_assign_submission_" \o plugin.type.v \o ".pluginname")
             translation == instant(table, translationId)
             calls == <<InstantCall(translationId, translation)>>
         IN  IF Truthy(plugin.name)
             THEN Return(plugin.name, self, m, calls)
             ELSE IF NotEqual(translationId, translation)
                  THEN Return(translation, self, m, calls)
                  ELSE Return(Undefined, self, m, calls)

\* As getPluginName, but falling back to the looked-up value.
getPluginName_echoing(self, m, table, plugin) ==
    IF plugin = Null \/ plugin = Undefined
    THEN Throw("TypeError", self, m, <<>>)
    ELSE LET translationId == Str("addon.mod_assign_submission_" \o plugin.type.v \o ".pluginname")
             translation == instant(table, translationId)
             calls == <<InstantCall(translationId, translation)>>
         IN  IF NotEqual(translationId, translation)
             THEN Return(translation, self, m, calls)
             ELSE Return(translation, self, m, calls)

\* As getPluginName, but returning the name field without testing it.
getPluginName_untested(self, m, table, plugin) ==
    IF plugin = Null \/ plugin = Undefined
    THEN Throw("TypeError", self, m, <<>>)
    ELSE LET translationId == Str("addon.mod_assign_submission_" \o plugin.type.v \o ".pluginname")
             translation == instant(table, translationId)
             calls == <<InstantCall(translationId, translation)>>
         IN  IF NotEqual(translationId, translation)
             THEN Return(translation, self, m, calls)
             ELSE Return(plugin.name, self, m, calls)

\* As getPluginName, but remembering the last translation in the handler and
\* using it when the descriptor has no name.
getPluginName_caching(self, m, table, plugin) ==
    IF plugin = Null \/ plugin = Undefined
    THEN Throw("TypeError", self, m, <<>>)
    ELSE LET translationId == Str("addon.mod_assign_submission_" \o plugin.type.v \o ".pluginname")
             translation == instant(table, translationId)
             calls == <<InstantCall(translationId, translation)>>
         IN  IF NotEqual(translationId, translation)
             THEN Return(translation, [self EXCEPT !.name = translation.v], m, calls)
             ELSE IF Truthy(plugin.name)
                  THEN Return(plugin.name, self, m, calls)
                  ELSE IF self.name # "AddonModAssignBaseSubmissionHandler"
                       THEN Return(Str(self.name), self, m, calls)
                       ELSE Return(Undefined, self, m, calls)


getPluginName(self, m, table, plugin) ==
    IF plugin = Null \/ plugin = Undefined
    THEN Throw("TypeError", self, m, <<>>)
    ELSE LET translationId == Str("addon.mod_assign_submission_" \o plugin.type.v \o ".pluginname")
             translation == instant(table, translationId)
             calls == <<InstantCall(translationId, translation)>>
         IN  IF NotEqual(translationId, translation)
             THEN Return(translation, self, m, calls)
             ELSE IF Truthy(plugin.name)
                  THEN Return(plugin.name, self, m, calls)
                  ELSE Return(Undefined, self, m, calls)

getSizeForCopy(self, m, assign, plugin) ==
    Return(Num(0), self, m, <<>>)

\* As getSizeForEdit, but counting the entered fields.
getSizeForEdit_counting(self, m, assign, submission, plugin) ==
    Return(Num(Cardinality(m.inputData)), self, m, <<>>)

\* inputData is m.inputData
getSizeForEdit(self, m, assign, submission, plugin) ==
    Return(Num(0), self, m, <<>>)

\* As hasDataChanged, but reporting a change whenever the form holds data.
hasDataChanged_fromInput(self, m, assign, submission, plugin) ==
    Return(Bool(m.inputData # {}), self, m, <<>>)

\* inputData is m.inputData
hasDataChanged(self, m, assign, submission, plugin) ==
    Return(Bool(FALSE), self, m, <<>>)

isEnabled(self, m) ==
    Return(Bool(TRUE), self, m, <<>>)

isEnabledForEdit(self, m) ==
    Return(Bool(FALSE), self, m, <<>>)

\* As prefetch, but returning a promise that is never settled.
prefetch_pending(self, m, assign, submission, plugin, siteId) ==
    Return(PromiseOf("pending", Undefined), self, m, <<>>)


prefetch(self, m, assign, submission, plugin, siteId) ==
    Return(PromiseOf("resolved", Undefined), self, m, <<>>)

\* inputData is m.inputData, pluginData is m.pluginData
prepareSubmissionData(self, m, assign, submission, plugin, offline, userId, siteId) ==
    Return(Undefined, self, m, <<>>)

\* As prepareSyncData, but copying the offline data into the accumulator.
prepareSyncData_copying(self, m, assign, submission, plugin, siteId) ==
    Return(Undefined, self, [m EXCEPT !.pluginData = @ \cup m.offlineData], <<>>)

\* offlineData is m.offlineData, pluginData is m.pluginData
prepareSyncData(self, m, assign, submission, plugin, siteId) ==
    Return(Undefined, self, m, <<>>)

----------------------------------------------------------------------------
(* Inputs *)

AllTypes == <<"file", "custom", "onlinetext", "comments">>

PluginTypes ==
    {AllTypes[i] : i \in 1..(IF MaxTypes < Len(AllTypes) THEN MaxTypes ELSE Len(AllTypes))}

PluginNameKey(type) == "addon.mod_assign_submission_" \o type \o ".pluginname"

\* Plugin descriptors: the name field absent, empty or a display name, and
\* one descriptor whose name spells its own translation key.
Plugins ==
    [type : {Str(ty) : ty \in PluginTypes}, name : {Undefined, Str(""), Str("Custom Plugin")}]
    \cup {[type |-> Str("file"), name |-> Str(PluginNameKey("file"))]}

\* What a caller can pass as the plugin argument; Null is not a descriptor.
PluginArgs == Plugins \cup {Null}

\* Assignments and submissions are opaque to the handler.
Assigns == {[id |-> 1]}
Submissions == {[id |-> 1, assignment |-> 1]}
OptIds == {Undefined, Num(1)}
OptFlags == {Undefined, Bool(TRUE), Bool(FALSE)}
Fields == 1..MaxFields

\* Language packs the translation service can be switched to.
LangEn ==
    (PluginNameKey("file") :> "File submissions") @@
    (PluginNameKey("onlinetext") :> "Online text")

\* A pack that maps a key to itself and another key to the empty string.
LangSelf ==
    (PluginNameKey("file") :> PluginNameKey("file")) @@
    (PluginNameKey("custom") :> "")

LangNone == [k \in {} |-> ""]

LangPacks == {LangEn, LangSelf, LangNone}

NoCall == [hook |-> "none"]

----------------------------------------------------------------------------
(* State machine *)

Init ==
    /\ this = AddonModAssignBaseSubmissionHandler
    /\ translations = LangEn
    /\ mem = [pluginData |-> {}, inputData |-> {}, offlineData |-> {}, storage |-> {}]
    /\ result = NoCall
    /\ earlier = NoCall

Observed(hook, plugin, c) ==
    [hook |-> hook, plugin |-> plugin, status |-> c.status, ret |-> c.ret, calls |-> c.calls]

\* A hook call: the handler and the caller's objects become what the hook
\* left, and the outcome is observed.
Invoke(hook, plugin, c) ==
    /\ this' = c.this
    /\ mem' = c.mem
    /\ result' = Observed(hook, plugin, c)
    /\ UNCHANGED <<translations, earlier>>

CallCanEditOffline ==
    \E assign \in Assigns, submission \in Submissions, plugin \in PluginArgs :
        Invoke("canEditOffline", plugin, canEditOffline(this, mem, assign, submission, plugin))

CallIsEmpty ==
    \E assign \in Assigns, plugin \in PluginArgs :
        Invoke("isEmpty", plugin, isEmpty(this, mem, assign, plugin))

CallClearTmpData ==
    \E assign \in Assigns, submission \in Submissions, plugin \in PluginArgs :
        Invoke("clearTmpData", plugin, clearTmpData(this, mem, assign, submission, plugin))

CallCopySubmissionData ==
    \E assign \in Assigns, plugin \in PluginArgs, userId \in OptIds, siteId \in OptIds :
        Invoke("copySubmissionData", plugin,
               copySubmissionData(this, mem, assign, plugin, userId, siteId))

CallDeleteOfflineData ==
    \E assign \in Assigns, submission \in Submissions, plugin \in PluginArgs, siteId \in OptIds :
        Invoke("deleteOfflineData", plugin,
               deleteOfflineData(this, mem, assign, submission, plugin, siteId))

CallGetComponent ==
    \E plugin \in PluginArgs, edit \in OptFlags :
        Invoke("getComponent", plugin, getComponent(this, mem, "Injector", plugin, edit))

CallGetPluginFiles ==
    \E assign \in Assigns, submission \in Submissions, plugin \in PluginArgs, siteId \in OptIds :
        Invoke("getPluginFiles", plugin,
               getPluginFiles(this, mem, assign, submission, plugin, siteId))

CallGetPluginName ==
    \E plugin \in PluginArgs :
        Invoke("getPluginName", plugin, getPluginName(this, mem, translations, plugin))

CallGetSizeForCopy ==
    \E assign \in Assigns, plugin \in PluginArgs :
        Invoke("getSizeForCopy", plugin, getSizeForCopy(this, mem, assign, plugin))

CallGetSizeForEdit ==
    \E assign \in Assigns, submission \in Submissions, plugin \in PluginArgs :
        Invoke("getSizeForEdit", plugin, getSizeForEdit(this, mem, assign, submission, plugin))

CallHasDataChanged ==
    \E assign \in Assigns, submission \in Submissions, plugin \in PluginArgs :
        Invoke("hasDataChanged", plugin, hasDataChanged(this, mem, assign, submission, plugin))

CallIsEnabled ==
    Invoke("isEnabled", Undefined, isEnabled(this, mem))

CallIsEnabledForEdit ==
    Invoke("isEnabledForEdit", Undefined, isEnabledForEdit(this, mem))

CallPrefetch ==
    \E assign \in Assigns, submission \in Submissions, plugin \in PluginArgs, siteId \in OptIds :
        Invoke("prefetch", plugin, prefetch(this, mem, assign, submission, plugin, siteId))

CallPrepareSubmissionData ==
    \E assign \in Assigns, submission \in Submissions, plugin \in PluginArgs,
       offline \in OptFlags, userId \in OptIds, siteId \in OptIds :
        Invoke("prepareSubmissionData", plugin,
               prepareSubmissionData(this, mem, assign, submission, plugin, offline, userId, siteId))

CallPrepareSyncData ==
    \E assign \in Assigns, submission \in Submissions, plugin \in PluginArgs, siteId \in OptIds :
        Invoke("prepareSyncData", plugin,
               prepareSyncData(this, mem, assign, submission, plugin, siteId))

\* The translation service is switched to another language pack.  What was
\* observed under the old table is dropped.
UseLang ==
    /\ \E pack \in LangPacks \ {translations} : translations' = pack
    /\ result' = NoCall
    /\ earlier' = NoCall
    /\ UNCHANGED <<this, mem>>

\* The observer files away the outcome of the call just made, to compare
\* it with the outcomes of later calls.
Keep ==
    /\ result # NoCall
    /\ earlier' = [hook |-> result.hook, plugin |-> result.plugin,
                   status |-> result.status, ret |-> result.ret]
    /\ result' = NoCall
    /\ UNCHANGED <<this, translations, mem>>

\* The user enters data in the edit form.
EnterInput ==
    /\ \E f \in Fields : mem' = [mem EXCEPT !.inputData = @ \cup {f}]
    /\ UNCHANGED <<this, translations, result, earlier>>

\* Another plugin's handler adds its data to the accumulator.
OtherHandlerAdds ==
    /\ \E f \in Fields : mem' = [mem EXCEPT !.pluginData = @ \cup {f}]
    /\ UNCHANGED <<this, translations, result, earlier>>

\* The caller stores the entered data for a later synchronisation.
SaveOffline ==
    /\ mem.inputData # {}
    /\ mem' = [mem EXCEPT !.offlineData = mem.inputData, !.storage = mem.inputData]
    /\ UNCHANGED <<this, translations, result, earlier>>

\* The caller starts over with a fresh form and a fresh accumulator.
StartOver ==
    /\ mem' = [mem EXCEPT !.inputData = {}, !.pluginData = {}]
    /\ UNCHANGED <<this, translations, result, earlier>>

Hooks ==
    \/ CallCanEditOffline
    \/ CallIsEmpty
    \/ CallClearTmpData
    \/ CallCopySubmissionData
    \/ CallDeleteOfflineData
    \/ CallGetComponent
    \/ CallGetPluginFiles
    \/ CallGetPluginName
    \/ CallGetSizeForCopy
    \/ CallGetSizeForEdit
    \/ CallHasDataChanged
    \/ CallIsEnabled
    \/ CallIsEnabledForEdit
    \/ CallPrefetch
    \/ CallPrepareSubmissionData
    \/ CallPrepareSyncData

Next ==
    \/ Hooks
    \/ UseLang
    \/ EnterInput
    \/ OtherHandlerAdds
    \/ SaveOffline
    \/ StartOver

Spec == Init /\ [][Next]_vars

\* The hook calls under a changing table, with outcomes kept for comparison.
NextRepeat ==
    \/ Hooks
    \/ UseLang
    \/ Keep

SpecRepeat == Init /\ [][NextRepeat]_vars

----------------------------------------------------------------------------
(* Properties *)

IsNameCall == result.hook = "getPluginName" /\ result.plugin # Null

\* The key the handler is to look up for a plugin descriptor.
ExpectedKey(plugin) == Str(PluginNameKey(plugin.type.v))

\* C1: whenever the lookup of the plugin's translation key returns a value
\* different from the key, getPluginName returns exactly that value,
\* whatever the descriptor's name is.
C1_TranslationWins ==
    IsNameCall =>
        \A i \in 1..Len(result.calls) :
            (/\ result.calls[i].key = ExpectedKey(result.plugin)
             /\ result.calls[i].ret # result.calls[i].key)
            => (result.status = "return" /\ result.ret = result.calls[i].ret)

C1_Witness ==
    /\ IsNameCall
    /\ result.plugin = [type |-> Str("file"), name |-> Str("Custom Plugin")]
    /\ result.calls = <<InstantCall(Str("addon.mod_assign_submission_file.pluginname"),
                                    Str("File submissions"))>>
    /\ result.ret = Str("File submissions")

\* C2: whenever the lookup echoes the key and the descriptor has a non-empty
\* name, getPluginName returns the descriptor's name.
C2_FallbackToName ==
    IsNameCall =>
        \A i \in 1..Len(result.calls) :
            (/\ result.calls[i].key = ExpectedKey(result.plugin)
             /\ result.calls[i].ret = result.calls[i].key
             /\ result.plugin.name.t = "string"
             /\ result.plugin.name.v # "")
            => (result.status = "return" /\ result.ret = result.plugin.name)

C2_Witness ==
    /\ IsNameCall
    /\ result.plugin = [type |-> Str("custom"), name |-> Str("Custom Plugin")]
    /\ result.calls = <<InstantCall(Str("addon.mod_assign_submission_custom.pluginname"),
                                    Str("addon.mod_assign_submission_custom.pluginname"))>>
    /\ result.ret = Str("Custom Plugin")

\* C3: whenever the lookup echoes the key and the descriptor has no name
\* (absent or empty), getPluginName returns undefined; on an echo it never
\* returns the empty string, and it returns the echoed key only when the
\* descriptor's name equals it.
C3_NeitherIsUndefined ==
    IsNameCall =>
        \A i \in 1..Len(result.calls) :
            (/\ result.calls[i].key = ExpectedKey(result.plugin)
             /\ result.calls[i].ret = result.calls[i].key)
            => /\ result.status = "return"
               /\ result.plugin.name \in {Undefined, Str("")} => result.ret = Undefined
               /\ result.ret # Str("")
               /\ result.ret = result.calls[i].key => result.plugin.name = result.calls[i].key

C3_Witness ==
    /\ IsNameCall
    /\ result.plugin = [type |-> Str("custom"), name |-> Str("")]
    /\ result.calls = <<InstantCall(Str("addon.mod_assign_submission_custom.pluginname"),
                                    Str("addon.mod_assign_submission_custom.pluginname"))>>
    /\ result.ret = Undefined

\* C4: a call of clearTmpData, copySubmissionData, deleteOfflineData,
\* prepareSubmissionData or prepareSyncData leaves the accumulator, the input
\* data, the offline data, the storage and the translation table as they were.
C4_SideEffectFree ==
    [][(\/ result'.hook = "clearTmpData" /\ CallClearTmpData
        \/ result'.hook = "copySubmissionData" /\ CallCopySubmissionData
        \/ result'.hook = "deleteOfflineData" /\ CallDeleteOfflineData
        \/ result'.hook = "prepareSubmissionData" /\ CallPrepareSubmissionData
        \/ result'.hook = "prepareSyncData" /\ CallPrepareSyncData)
       => (mem' = mem /\ translations' = translations)]_vars

C4_Witness ==
    /\ result.hook = "prepareSyncData"
    /\ mem.offlineData # {}
    /\ mem.pluginData = {}
    /\ mem.storage # {}

\* C5: canEditOffline returns false, isEmpty true, hasDataChanged false,
\* isEnabled true and isEnabledForEdit false, whatever the arguments.
C5_BooleanDefaults ==
    /\ result.hook = "canEditOffline" => (result.status = "return" /\ result.ret = Bool(FALSE))
    /\ result.hook = "isEmpty" => (result.status = "return" /\ result.ret = Bool(TRUE))
    /\ result.hook = "hasDataChanged" => (result.status = "return" /\ result.ret = Bool(FALSE))
    /\ result.hook = "isEnabled" => (result.status = "return" /\ result.ret = Bool(TRUE))
    /\ result.hook = "isEnabledForEdit" => (result.status = "return" /\ result.ret = Bool(FALSE))

C5_Witness ==
    /\ result.hook = "hasDataChanged"
    /\ mem.inputData # {}
    /\ result.ret = Bool(FALSE)

\* C6: prefetch returns a promise that is already resolved with no value,
\* and invokes no collaborator.
C6_PrefetchResolved ==
    result.hook = "prefetch" =>
        /\ result.status = "return"
        /\ result.ret = PromiseOf("resolved", Undefined)
        /\ result.calls = <<>>

C6_Witness ==
    /\ result.hook = "prefetch"
    /\ result.plugin \in Plugins
    /\ result.ret.t = "promise"
    /\ result.ret.state = "resolved"

\* C7: the handler's fields never change, and a hook called again with the
\* same inputs under an unchanged translation table ends as the earlier call
\* did, whichever hooks were called in between.
C7_Stateless ==
    /\ this = AddonModAssignBaseSubmissionHandler
    /\ (/\ earlier # NoCall
        /\ result # NoCall
        /\ earlier.hook = result.hook
        /\ earlier.plugin = result.plugin)
       => (result.status = earlier.status /\ result.ret = earlier.ret)

C7_Witness ==
    /\ earlier # NoCall
    /\ result # NoCall
    /\ earlier.hook = "getPluginName"
    /\ result.hook = "getPluginName"
    /\ earlier.plugin = [type |-> Str("file"), name |-> Undefined]
    /\ result.plugin = earlier.plugin
    /\ translations = LangNone
    /\ result.ret = Undefined

\* C8: every hook called with a plugin descriptor returns; none throws and
\* none returns a rejected promise.
C8_Total ==
    (result # NoCall /\ result.plugin # Null) =>
        /\ result.status = "return"
        /\ result.ret.t = "promise" => result.ret.state # "rejected"

C8_Witness ==
    /\ result.hook = "getComponent"
    /\ result.plugin = [type |-> Str("custom"), name |-> Undefined]
    /\ result.status = "return"

\* C9: getSizeForCopy and getSizeForEdit return exactly 0.
C9_SizeZero ==
    result.hook \in {"getSizeForCopy", "getSizeForEdit"} =>
        (result.status = "return" /\ result.ret = Num(0))

C9_Witness ==
    /\ result.hook = "getSizeForEdit"
    /\ mem.inputData # {}
    /\ result.ret = Num(0)

\* C10: getPluginFiles returns an empty sequence.
C10_NoFiles ==
    result.hook = "getPluginFiles" =>
        (result.status = "return" /\ result.ret = Arr(<<>>))

C10_Witness ==
    /\ result.hook = "getPluginFiles"
    /\ result.plugin = [type |-> Str("file"), name |-> Str("Custom Plugin")]
    /\ result.ret.v = <<>>

====
